---- MODULE Spec2Model ----
(***************************************************************************)
(* Model of multi_agent_content_orchestra.py: the start-up script (topic   *)
(* prompt, construction of the crew, kickoff) and its two post-processing  *)
(* functions, save_sections_to_files and build_slides_from_outline.        *)
(*                                                                         *)
(* A Python str is a sequence of one-character strings, so that strip,     *)
(* lstrip, split, splitlines, join, lower and replace are computed         *)
(* character by character as CPython computes them.                        *)
(***************************************************************************)
EXTENDS Integers, Sequences, FiniteSets, TLC

VARIABLES pc, typed, TOPIC, constructed, calls, final_result,
          lines, idx, current, sections, files, writes, prs, out, runs

vars == <<pc, typed, TOPIC, constructed, calls, final_result,
          lines, idx, current, sections, files, writes, prs, out, runs>>

----------------------------------------------------------------------------
(* Bounds of the exploration *)

\* longest outline text drawn character by character
MaxTextLen == 5
\* largest number of lines in the crew's final text
MaxLines == 4
\* number of consecutive calls of build_slides_from_outline on one outline
MaxRuns == 2

----------------------------------------------------------------------------
(* Python string primitives *)

NL == "\n"
\* characters removed by str.strip() without argument
Whitespace == {" ", "\t", "\n", "\r", "\f"}

RECURSIVE LStripChars(_, _)
\* str.lstrip(chars): drop the longest prefix made of characters of chars
LStripChars(s, chars) ==
  IF s # <<>> /\ Head(s) \in chars THEN LStripChars(Tail(s), chars) ELSE s

RECURSIVE RStripChars(_, _)
\* str.rstrip(chars)
RStripChars(s, chars) ==
  IF s # <<>> /\ s[Len(s)] \in chars
    THEN RStripChars(SubSeq(s, 1, Len(s) - 1), chars)
    ELSE s

\* str.strip(chars)
StripChars(s, chars) == RStripChars(LStripChars(s, chars), chars)

\* str.strip()
Strip(s) == StripChars(s, Whitespace)

RECURSIVE SplitLinesAcc(_, _, _, _)
SplitLinesAcc(s, i, cur, acc) ==
  IF i > Len(s)
    THEN (IF cur = <<>> THEN acc ELSE Append(acc, cur))
    ELSE IF s[i] = NL
      THEN SplitLinesAcc(s, i + 1, <<>>, Append(acc, cur))
      ELSE SplitLinesAcc(s, i + 1, Append(cur, s[i]), acc)

\* str.splitlines(): a trailing line break opens no further empty line
SplitLines(s) == SplitLinesAcc(s, 1, <<>>, <<>>)

RECURSIVE SplitBlankAcc(_, _, _, _)
SplitBlankAcc(s, i, cur, acc) ==
  IF i > Len(s)
    THEN Append(acc, cur)
    ELSE IF s[i] = NL /\ i + 1 <= Len(s) /\ s[i + 1] = NL
      THEN SplitBlankAcc(s, i + 2, <<>>, Append(acc, cur))
      ELSE SplitBlankAcc(s, i + 1, Append(cur, s[i]), acc)

\* text.split("\n\n"): cut at the non-overlapping occurrences of two
\* consecutive line feeds, scanning from the left
SplitDoubleNewline(s) == SplitBlankAcc(s, 1, <<>>, <<>>)

RECURSIVE JoinNewline(_)
\* "\n".join(ls)
JoinNewline(ls) ==
  IF ls = <<>> THEN <<>>
  ELSE IF Len(ls) = 1 THEN ls[1]
  ELSE ls[1] \o <<NL>> \o JoinNewline(Tail(ls))

\* index of the first occurrence of character c in s, 0 when absent
FirstIndexOf(s, c) ==
  IF \E i \in 1..Len(s) : s[i] = c
    THEN CHOOSE i \in 1..Len(s) : s[i] = c /\ \A j \in 1..(i - 1) : s[j] # c
    ELSE 0

UpperAlpha == <<"A", "B", "C", "D", "E", "F", "G", "H", "I", "J", "K", "L", "M",
                "N", "O", "P", "Q", "R", "S", "T", "U", "V", "W", "X", "Y", "Z">>
LowerAlpha == <<"a", "b", "c", "d", "e", "f", "g", "h", "i", "j", "k", "l", "m",
                "n", "o", "p", "q", "r", "s", "t", "u", "v", "w", "x", "y", "z">>

\* str.lower()
Lower(s) ==
  [i \in 1..Len(s) |->
     IF \E k \in 1..26 : UpperAlpha[k] = s[i]
       THEN LowerAlpha[CHOOSE k \in 1..26 : UpperAlpha[k] = s[i]]
       ELSE s[i]]

\* str.replace(a, b) for single characters a and b
ReplaceChar(s, a, b) == [i \in 1..Len(s) |-> IF s[i] = a THEN b ELSE s[i]]

\* the sequences over S of length at most n
SeqUpTo(S, n) == UNION {[1..k -> S] : k \in 0..n}

\* [f(x) for x in s]
MapSeq(s, F(_)) == [i \in 1..Len(s) |-> F(s[i])]

NonEmpty(s) == s # <<>>

----------------------------------------------------------------------------
(* Program constants *)

OUTPUT_DIR == <<"c", "o", "n", "t", "e", "n", "t", "_", "o", "u", "t", "p", "u", "t">>

KEYNOTE == <<"[", "K", "E", "Y", "N", "O", "T", "E", " ", "S", "P", "E", "E", "C", "H", "]">>
LINKEDIN == <<"[", "L", "I", "N", "K", "E", "D", "I", "N", " ", "P", "O", "S", "T", "]">>
YOUTUBE == <<"[", "Y", "O", "U", "T", "U", "B", "E", " ", "S", "C", "R", "I", "P", "T", "]">>
OUTLINE == <<"[", "S", "L", "I", "D", "E", " ", "O", "U", "T", "L", "I", "N", "E", "]">>

\* the list markers of save_sections_to_files, in its order
markers == <<KEYNOTE, LINKEDIN, YOUTUBE, OUTLINE>>
MarkerSet == {markers[i] : i \in 1..Len(markers)}

\* the value None of the cursor; like None it is falsy
None == <<>>
Truthy(x) == x # <<>>

TxtSuffix == <<".", "t", "x", "t">>

\* f"{OUTPUT_DIR}/{name}"
InOutputDir(name) == OUTPUT_DIR \o <<"/">> \o name

\* the default and actual arguments of build_slides_from_outline
OutlinePath ==
  InOutputDir(<<"s", "l", "i", "d", "e", "_", "o", "u", "t", "l", "i", "n", "e", ".", "t", "x", "t">>)
PptxPath ==
  InOutputDir(<<"s", "l", "i", "d", "e", "s", ".", "p", "p", "t", "x">>)

\* the character U+2022 (bullet dot)
BulletDot == "U+2022"

\* characters given to lstrip for a bullet candidate
BulletGlyphs == {"-", BulletDot, " "}

----------------------------------------------------------------------------
(* save_sections_to_files *)

\* stripped in markers
IsMarkerLine(line) == Strip(line) \in MarkerSet

\* the cursor after one line of the scan
NextCurrent(cur, line) == IF IsMarkerLine(line) THEN Strip(line) ELSE cur

\* a scan that forgets the continue after a marker line
NextSectionsKeepMarker(secs, cur, line) ==
  IF Truthy(NextCurrent(cur, line))
    THEN [secs EXCEPT ![NextCurrent(cur, line)] = Append(@, line)]
    ELSE secs

\* a scan that restarts the list at every line it stores
NextSectionsOverwrite(secs, cur, line) ==
  IF IsMarkerLine(line) THEN secs
  ELSE IF Truthy(cur) THEN [secs EXCEPT ![cur] = <<line>>]
  ELSE secs

\* the dictionary sections after one line of the scan
NextSections(secs, cur, line) ==
  IF IsMarkerLine(line) THEN secs
  ELSE IF Truthy(cur) THEN [secs EXCEPT ![cur] = Append(@, line)]
  ELSE secs

\* a derivation that forgets to replace the spaces
FilenameKeepSpaces(marker) ==
  Lower(StripChars(marker, {"[", "]"})) \o TxtSuffix

\* marker.strip("[]").lower().replace(" ", "_") + ".txt"
Filename(marker) ==
  ReplaceChar(Lower(StripChars(marker, {"[", "]"})), " ", "_") \o TxtSuffix

\* a path that leaves the output directory out
SectionPathNoDir(marker) == Filename(marker)

\* f"{OUTPUT_DIR}/{filename}"
SectionPath(marker) == InOutputDir(Filename(marker))

\* "\n".join(lines).strip(), the text written for a section
SectionContent(ls) == Strip(JoinNewline(ls))

RECURSIVE WriteSectionFiles(_, _, _)
\* the file system after the writing loop, from the i-th marker on
WriteSectionFiles(i, fs, secs) ==
  IF i > Len(markers) THEN fs
  ELSE IF secs[markers[i]] = <<>> THEN WriteSectionFiles(i + 1, fs, secs)
  ELSE WriteSectionFiles(
         i + 1,
         (SectionPath(markers[i]) :> SectionContent(secs[markers[i]])) @@ fs,
         secs)

RECURSIVE WrittenSectionPaths(_, _)
\* the paths opened for writing by the loop, in order
WrittenSectionPaths(i, secs) ==
  IF i > Len(markers) THEN <<>>
  ELSE IF secs[markers[i]] = <<>> THEN WrittenSectionPaths(i + 1, secs)
  ELSE <<SectionPath(markers[i])>> \o WrittenSectionPaths(i + 1, secs)

----------------------------------------------------------------------------
(* build_slides_from_outline *)

\* [b.strip() for b in text.split("\n\n") if b.strip()]
Blocks(text) == SelectSeq(MapSeq(SplitDoubleNewline(text), Strip), NonEmpty)

\* [line.strip() for line in block.splitlines() if line.strip()]
BlockLines(block) == SelectSeq(MapSeq(SplitLines(block), Strip), NonEmpty)

\* a title taken after the last colon instead of the first
TitleOfLastColon(raw_title) ==
  IF \E i \in 1..Len(raw_title) : raw_title[i] = ":"
    THEN Strip(SubSeq(raw_title,
                      1 + (CHOOSE i \in 1..Len(raw_title) :
                             raw_title[i] = ":" /\
                             \A j \in (i + 1)..Len(raw_title) : raw_title[j] # ":"),
                      Len(raw_title)))
    ELSE raw_title

\* raw_title.split(":", 1)[1].strip() when ":" in raw_title, else raw_title
TitleOf(raw_title) ==
  IF FirstIndexOf(raw_title, ":") # 0
    THEN Strip(SubSeq(raw_title, FirstIndexOf(raw_title, ":") + 1, Len(raw_title)))
    ELSE raw_title

\* a bullet that is only trimmed
BulletOfNoGlyphStrip(l) == Strip(l)

\* l.lstrip(glyphs).strip(), glyphs being hyphen, U+2022 and space
BulletOf(l) == Strip(LStripChars(l, BulletGlyphs))

\* bullet_lines of a block's lines
BulletLines(ls) == MapSeq(Tail(ls), BulletOf)

\* the paragraphs put in the body: the loop skips the empty bullets
BodyOf(bullet_lines) == SelectSeq(bullet_lines, NonEmpty)

\* the slide added for the lines of a block
SlideOf(ls) == [title |-> TitleOf(ls[1]), bullets |-> BodyOf(BulletLines(ls))]

\* a deck opened from the file at pptx_path when there is one
PresentationFromDisk == IF PptxPath \in DOMAIN files THEN files[PptxPath] ELSE <<>>

\* Presentation(): a new deck without slides
Presentation == <<>>

RECURSIVE AddSlides(_, _)
\* the deck after the loop over the blocks
AddSlides(deck, blocks) ==
  IF blocks = <<>> THEN deck
  ELSE IF BlockLines(Head(blocks)) = <<>> THEN AddSlides(deck, Tail(blocks))
  ELSE AddSlides(Append(deck, SlideOf(BlockLines(Head(blocks)))), Tail(blocks))

\* a check of the blocks that never returns early
NoBlocksNever(blocks) == FALSE

\* not blocks
NoBlocks(blocks) == blocks = <<>>

----------------------------------------------------------------------------
(* Inputs *)

\* what the user may type at the prompt
TopicInputs == {<<>>, <<" ">>, <<"\t", " ">>, <<"A", "I">>, <<" ", "A", "I", "\t">>}

\* the lines the crew's final text is made of
LinePool == {KEYNOTE, LINKEDIN, YOUTUBE, OUTLINE,
             <<" ">> \o OUTLINE \o <<"\t">>,
             <<"x">>, <<" ", "y", " ">>, <<>>}

FinalTexts == {JoinNewline(ls) : ls \in SeqUpTo(LinePool, MaxLines)}

\* the characters outline files are drawn from
OutlineAlphabet == {"a", ":", "-", BulletDot, " ", NL}

Benefits == <<"B", "e", "n", "e", "f", "i", "t", "s">>
Fast == <<"F", "a", "s", "t">>

\* a block with the title line and the bullet line of the documentation
BenefitsOutline ==
  <<"S", "l", "i", "d", "e", " ", "2", ":", " ">> \o Benefits \o <<NL, "-", " ">> \o Fast

\* three blocks: bullets kept and dropped, every bullet dropped, title only
BulletsOutline ==
  <<"T", NL, "-", "\t", "-", " ", "x", NL, "-", " ", NL, BulletDot, " ", "-", "y", " ",
    NL, NL, "U", NL, "-", NL, NL, "V">>

\* a line holding a tab between two lines, then three line feeds
TabLineOutline == <<"A", NL, "\t", NL, "B", NL, NL, NL, "C", ":">>

SampleOutlines == {BenefitsOutline, BulletsOutline, TabLineOutline}

OutlineTexts == SeqUpTo(OutlineAlphabet, MaxTextLen) \cup SampleOutlines

\* a deck left by an earlier run
StaleDeck == << [title |-> <<"o", "l", "d">>, bullets |-> << <<"b">> >>] >>

EmptyDisk == [p \in {} |-> <<>>]

\* content_output as an earlier run may have left it
StaleDisk ==
  (OutlinePath :> <<"o", "l", "d">>) @@ (PptxPath :> StaleDeck) @@
  (SectionPath(KEYNOTE) :> <<"k">>)

----------------------------------------------------------------------------
(* The script, lines 9-262: configuration, prompt, construction *)

\* input(...).strip() without the strip
ReadTopicRaw(raw) == raw

\* input(...).strip()
ReadTopic(raw) == Strip(raw)

Init ==
  /\ pc = "config"
  /\ typed = <<>>
  /\ TOPIC = <<>>
  /\ constructed = {}
  /\ calls = <<>>
  /\ final_result = <<>>
  /\ lines = <<>>
  /\ idx = 0
  /\ current = None
  /\ sections = [m \in MarkerSet |-> <<>>]
  /\ files \in {EmptyDisk, StaleDisk}
  /\ writes = <<>>
  /\ prs = <<>>
  /\ out = <<>>
  /\ runs = 0

\* os.makedirs(OUTPUT_DIR, exist_ok=True), os.environ, params, URL, PROJECT_ID
Configure ==
  /\ pc = "config"
  /\ pc' = "input"
  /\ UNCHANGED <<typed, TOPIC, constructed, calls, final_result, lines, idx,
                 current, sections, files, writes, prs, out, runs>>

\* TOPIC = input(...).strip()
InputTopic ==
  /\ pc = "input"
  /\ \E raw \in TopicInputs :
       /\ typed' = raw
       /\ TOPIC' = ReadTopic(raw)
  /\ pc' = "validate"
  /\ UNCHANGED <<constructed, calls, final_result, lines, idx, current,
                 sections, files, writes, prs, out, runs>>

\* if not TOPIC: raise ValueError(...)
RejectTopic ==
  /\ pc = "validate"
  /\ ~Truthy(TOPIC)
  /\ pc' = "error"
  /\ UNCHANGED <<typed, TOPIC, constructed, calls, final_result, lines, idx,
                 current, sections, files, writes, prs, out, runs>>

AcceptTopic ==
  /\ pc = "validate"
  /\ Truthy(TOPIC)
  /\ pc' = "llms"
  /\ UNCHANGED <<typed, TOPIC, constructed, calls, final_result, lines, idx,
                 current, sections, files, writes, prs, out, runs>>

\* one construction step of the script
Construct(at, objects, next) ==
  /\ pc = at
  /\ constructed' = constructed \cup objects
  /\ pc' = next
  /\ UNCHANGED <<typed, TOPIC, calls, final_result, lines, idx, current,
                 sections, files, writes, prs, out, runs>>

MakeLLMs == Construct("llms", {"llm", "function_calling_llm", "fmt_llm"}, "tools")
MakeTools == Construct("tools", {"search"}, "agents")
MakeAgents ==
  Construct("agents", {"researcher", "core_writer", "formatter", "editor"}, "tasks")
MakeTasks ==
  Construct("tasks",
            {"task_research", "task_core_narrative", "task_multiformat", "task_edit"},
            "crew")
MakeCrew == Construct("crew", {"crew"}, "main")

----------------------------------------------------------------------------
(* The script, lines 375-391 *)

\* final_result = crew.kickoff(); print(final_result)
Kickoff ==
  /\ pc = "main"
  /\ calls' = Append(calls, "kickoff")
  /\ \E text \in FinalTexts : final_result' = text
  /\ out' = Append(out, "final_result")
  /\ pc' = "split"
  /\ UNCHANGED <<typed, TOPIC, constructed, lines, idx, current, sections,
                 files, writes, prs, runs>>

\* crew.kickoff() raises: nothing catches it
KickoffRaises ==
  /\ pc = "main"
  /\ calls' = Append(calls, "kickoff")
  /\ pc' = "failed"
  /\ UNCHANGED <<typed, TOPIC, constructed, final_result, lines, idx, current,
                 sections, files, writes, prs, out, runs>>

\* save_sections_to_files(final_result), up to the scan loop
SaveSectionsBegin ==
  /\ pc = "split"
  /\ calls' = Append(calls, "save_sections_to_files")
  /\ lines' = SplitLines(final_result)
  /\ idx' = 0
  /\ current' = None
  /\ sections' = [m \in MarkerSet |-> <<>>]
  /\ pc' = "scan"
  /\ UNCHANGED <<typed, TOPIC, constructed, final_result, files, writes, prs,
                 out, runs>>

\* one iteration of the scan loop
ScanLine ==
  /\ pc = "scan"
  /\ idx < Len(lines)
  /\ current' = NextCurrent(current, lines[idx + 1])
  /\ sections' = NextSections(sections, current, lines[idx + 1])
  /\ idx' = idx + 1
  /\ UNCHANGED <<pc, typed, TOPIC, constructed, calls, final_result, lines,
                 files, writes, prs, out, runs>>

\* the writing loop, and the return of save_sections_to_files
WriteSections ==
  /\ pc = "scan"
  /\ idx = Len(lines)
  /\ files' = WriteSectionFiles(1, files, sections)
  /\ writes' = writes \o WrittenSectionPaths(1, sections)
  /\ out' = out \o [i \in 1..Len(WrittenSectionPaths(1, sections)) |-> "saved"]
  /\ pc' = "slides"
  /\ UNCHANGED <<typed, TOPIC, constructed, calls, final_result, lines, idx,
                 current, sections, prs, runs>>

\* build_slides_from_outline: no file at outline_path
BuildSlidesNoFile ==
  /\ pc = "slides"
  /\ OutlinePath \notin DOMAIN files
  /\ calls' = Append(calls, "build_slides_from_outline")
  /\ out' = Append(out, "no_outline")
  /\ prs' = <<>>
  /\ runs' = runs + 1
  /\ pc' = "done"
  /\ UNCHANGED <<typed, TOPIC, constructed, final_result, lines, idx, current,
                 sections, files, writes>>

\* build_slides_from_outline: the outline has no block
BuildSlidesEmpty ==
  /\ pc = "slides"
  /\ OutlinePath \in DOMAIN files
  /\ NoBlocks(Blocks(files[OutlinePath]))
  /\ calls' = Append(calls, "build_slides_from_outline")
  /\ out' = Append(out, "outline_empty")
  /\ prs' = <<>>
  /\ runs' = runs + 1
  /\ pc' = "done"
  /\ UNCHANGED <<typed, TOPIC, constructed, final_result, lines, idx, current,
                 sections, files, writes>>

\* build_slides_from_outline: the deck is built and saved
BuildSlidesSave ==
  /\ pc = "slides"
  /\ OutlinePath \in DOMAIN files
  /\ ~NoBlocks(Blocks(files[OutlinePath]))
  /\ calls' = Append(calls, "build_slides_from_outline")
  /\ prs' = AddSlides(Presentation, Blocks(files[OutlinePath]))
  /\ files' = (PptxPath :> prs') @@ files
  /\ writes' = Append(writes, PptxPath)
  /\ out' = Append(out, "pptx_generated")
  /\ runs' = runs + 1
  /\ pc' = "done"
  /\ UNCHANGED <<typed, TOPIC, constructed, final_result, lines, idx, current,
                 sections>>

Next ==
  \/ Configure
  \/ InputTopic
  \/ RejectTopic
  \/ AcceptTopic
  \/ MakeLLMs
  \/ MakeTools
  \/ MakeAgents
  \/ MakeTasks
  \/ MakeCrew
  \/ Kickoff
  \/ KickoffRaises
  \/ SaveSectionsBegin
  \/ ScanLine
  \/ WriteSections
  \/ BuildSlidesNoFile
  \/ BuildSlidesEmpty
  \/ BuildSlidesSave

Spec == Init /\ [][Next]_vars

----------------------------------------------------------------------------
(* build_slides_from_outline called on any outline file, several times *)

InitDeck ==
  /\ pc = "slides"
  /\ typed = <<>>
  /\ TOPIC = <<>>
  /\ constructed = {}
  /\ calls = <<>>
  /\ final_result = <<>>
  /\ lines = <<>>
  /\ idx = 0
  /\ current = None
  /\ sections = [m \in MarkerSet |-> <<>>]
  /\ \E text \in OutlineTexts, hasOutline \in BOOLEAN, hasDeck \in BOOLEAN :
       files = (IF hasOutline THEN OutlinePath :> text ELSE EmptyDisk) @@
               (IF hasDeck THEN PptxPath :> StaleDeck ELSE EmptyDisk)
  /\ writes = <<>>
  /\ prs = <<>>
  /\ out = <<>>
  /\ runs = 0

\* the caller invokes the function again on the same files
CallAgain ==
  /\ pc = "done"
  /\ runs < MaxRuns
  /\ pc' = "slides"
  /\ UNCHANGED <<typed, TOPIC, constructed, calls, final_result, lines, idx,
                 current, sections, files, writes, prs, out, runs>>

NextDeck ==
  \/ BuildSlidesNoFile
  \/ BuildSlidesEmpty
  \/ BuildSlidesSave
  \/ CallAgain

SpecDeck == InitDeck /\ [][NextDeck]_vars

----------------------------------------------------------------------------
(* Vocabulary of the properties *)

Range(s) == {s[i] : i \in 1..Len(s)}

Last(s) == s[Len(s)]

\* s holds only whitespace (or nothing)
AllWhitespace(s) == \A i \in 1..Len(s) : s[i] \in Whitespace

\* the call of build_slides_from_outline that just returned saved a deck
DeckSaved == pc = "done" /\ out # <<>> /\ Last(out) = "pptx_generated"

\* the first line of a block that is not empty once trimmed, trimmed
FirstTrimmedLine(block) ==
  LET ls == SplitLines(block)
      k == CHOOSE i \in 1..Len(ls) :
             /\ ~AllWhitespace(ls[i])
             /\ \A j \in 1..(i - 1) : AllWhitespace(ls[j])
  IN Strip(ls[k])

\* the trimmed non-empty lines of a block after its first one
BulletCandidates(block) ==
  LET ls == SplitLines(block)
      keep == SelectSeq([i \in 1..Len(ls) |-> i], LAMBDA i : ~AllWhitespace(ls[i]))
  IN [k \in 1..(Len(keep) - 1) |-> Strip(ls[keep[k + 1]])]

\* t is the title the rule of the colon gives for the line
TitleRule(line, t) ==
  IF ":" \in Range(line)
    THEN \E k \in 1..Len(line) :
           /\ line[k] = ":"
           /\ \A j \in 1..(k - 1) : line[j] # ":"
           /\ t = Strip(SubSeq(line, k + 1, Len(line)))
    ELSE t = line

\* the line without its leading run of bullet glyphs, then trimmed
BulletRule(l) ==
  LET k == CHOOSE n \in 0..Len(l) :
             /\ \A j \in 1..n : l[j] \in {"-", BulletDot, " "}
             /\ (n = Len(l) \/ l[n + 1] \notin {"-", BulletDot, " "})
  IN Strip(SubSeq(l, k + 1, Len(l)))

----------------------------------------------------------------------------
(* C2 *)

\* C2: a call of build_slides_from_outline whose outline file is missing, or
\* holds nothing but whitespace, returns with zero slides, writes nothing and
\* leaves every file, the deck included, as it was; the deck path is written
\* only by a call whose outline holds a non-whitespace character.
C2NoDeckWithoutOutline ==
  [][(pc = "slides" /\ pc' = "done") =>
       /\ (OutlinePath \notin DOMAIN files \/ AllWhitespace(files[OutlinePath]))
            => (prs' = <<>> /\ writes' = writes /\ files' = files)
       /\ (writes' # writes \/ files' # files)
            => (/\ OutlinePath \in DOMAIN files
                /\ \E i \in 1..Len(files[OutlinePath]) :
                     files[OutlinePath][i] \notin Whitespace)]_vars

\* a call returned on a non-empty whitespace-only outline, the old deck intact
C2Witness ==
  /\ pc = "done"
  /\ runs = 1
  /\ OutlinePath \in DOMAIN files
  /\ Len(files[OutlinePath]) >= 2
  /\ AllWhitespace(files[OutlinePath])
  /\ PptxPath \in DOMAIN files
  /\ files[PptxPath] = StaleDeck
  /\ out = <<"outline_empty">>

----------------------------------------------------------------------------
(* C6 *)

\* C6: every slide's title is derived from the first non-empty trimmed line
\* of its block: the text after the first colon, trimmed, when the line has a
\* colon (later colons are kept), the whole line otherwise; "Slide 2:
\* Benefits" gives "Benefits".
C6TitleAfterFirstColon ==
  DeckSaved =>
    LET blocks == Blocks(files[OutlinePath]) IN
    /\ Len(prs) = Len(blocks)
    /\ \A i \in 1..Len(blocks) : TitleRule(FirstTrimmedLine(blocks[i]), prs[i].title)
    /\ files[OutlinePath] = BenefitsOutline => prs[1].title = Benefits

\* a saved slide whose title line had two colons and kept the second
C6Witness ==
  /\ DeckSaved
  /\ \E i \in 1..Len(prs) :
       LET line == FirstTrimmedLine(Blocks(files[OutlinePath])[i]) IN
       /\ Cardinality({k \in 1..Len(line) : line[k] = ":"}) >= 2
       /\ ":" \in Range(prs[i].title)
       /\ line[1] # ":"

----------------------------------------------------------------------------
(* C7 *)

\* C7: the bullets of every slide are, in order, the lines of its block after
\* the first, each without its leading run of hyphens, bullet dots and spaces
\* and then trimmed, the empty results left out; no bullet is empty; a block
\* with no surviving bullet still gives one slide; "- Fast" gives "Fast".
C7BulletsStripped ==
  DeckSaved =>
    LET blocks == Blocks(files[OutlinePath]) IN
    /\ Len(prs) = Len(blocks)
    /\ \A i \in 1..Len(blocks) :
         /\ prs[i].bullets =
              SelectSeq(MapSeq(BulletCandidates(blocks[i]), BulletRule), NonEmpty)
         /\ \A k \in 1..Len(prs[i].bullets) : prs[i].bullets[k] # <<>>
    /\ files[OutlinePath] = BenefitsOutline => prs[1].bullets = <<Fast>>

\* the deck of the outline with a dropped bullet, an all-dropped block and a
\* title-only block
C7Witness ==
  /\ DeckSaved
  /\ files[OutlinePath] = BulletsOutline
  /\ prs = << [title |-> <<"T">>, bullets |-> << <<"-", " ", "x">>, <<"y">> >>],
              [title |-> <<"U">>, bullets |-> <<>>],
              [title |-> <<"V">>, bullets |-> <<>>] >>

----------------------------------------------------------------------------
(* C9 *)

\* C9: a second call on the unchanged outline leaves the deck, and every
\* other file, exactly as the first call left them, and a deck that is
\* written holds one slide per block of the outline, whatever the deck path
\* held before.
C9Idempotent ==
  [][(pc = "slides" /\ pc' = "done") =>
       /\ runs >= 1 => (files' = files /\ prs' = prs)
       /\ writes' # writes =>
            /\ Len(files'[PptxPath]) = Len(Blocks(files[OutlinePath]))
            /\ files'[PptxPath] = prs'
            /\ \A p \in DOMAIN files' \ {PptxPath} :
                 p \in DOMAIN files /\ files'[p] = files[p]]_vars

\* two calls in a row both saved a deck
C9Witness ==
  /\ pc = "done"
  /\ runs = 2
  /\ out = <<"pptx_generated", "pptx_generated">>
  /\ writes = <<PptxPath, PptxPath>>
  /\ Len(files[PptxPath]) >= 2

----------------------------------------------------------------------------
(* C1 *)

RECURSIVE SplitOnNewlineAcc(_, _, _, _)
SplitOnNewlineAcc(s, i, cur, acc) ==
  IF i > Len(s) THEN Append(acc, cur)
  ELSE IF s[i] = NL THEN SplitOnNewlineAcc(s, i + 1, <<>>, Append(acc, cur))
  ELSE SplitOnNewlineAcc(s, i + 1, Append(cur, s[i]), acc)

\* every line of a text, the empty ones included
AllLines(s) == SplitOnNewlineAcc(s, 1, <<>>, <<>>)

\* the lines that open a block when a text is cut at every blank line, a
\* blank line being one that is empty once trimmed
BlockOpeners(text) ==
  LET ls == AllLines(text) IN
  SelectSeq([i \in 1..Len(ls) |-> i],
            LAMBDA i : /\ ~AllWhitespace(ls[i])
                       /\ (i = 1 \/ AllWhitespace(ls[i - 1])))

\* C1: the deck holds exactly one slide per block of the outline cut at every
\* blank line (a line empty once trimmed), in the order of the blocks: the
\* i-th slide takes its title from the line that opens the i-th block.
C1OneSlidePerBlankLineBlock ==
  DeckSaved =>
    LET text == files[OutlinePath]
        opens == BlockOpeners(text)
    IN /\ Len(prs) = Len(opens)
       /\ \A i \in 1..Len(opens) :
            TitleRule(Strip(AllLines(text)[opens[i]]), prs[i].title)

----------------------------------------------------------------------------
(* C3 *)

\* the marker of the last marker line before line i, None when there is none
MarkerBefore(ls, i) ==
  IF \E j \in 1..(i - 1) : IsMarkerLine(ls[j])
    THEN Strip(ls[CHOOSE j \in 1..(i - 1) :
                    /\ IsMarkerLine(ls[j])
                    /\ \A k \in (j + 1)..(i - 1) : ~IsMarkerLine(ls[k])])
    ELSE None

\* among the first n lines, the non-marker lines that follow marker m
LinesUnder(m, ls, n) ==
  LET keep == SelectSeq([i \in 1..n |-> i],
                        LAMBDA i : ~IsMarkerLine(ls[i]) /\ MarkerBefore(ls, i) = m)
  IN [k \in 1..Len(keep) |-> ls[keep[k]]]

Scanning == pc \in {"scan", "slides", "done"}

\* C3: throughout and after the scan, the list of every marker m is exactly
\* the sequence of the non-marker lines read so far whose most recent marker
\* line is m, in their order and unchanged, the lines after every occurrence
\* of m included.
C3ListsFollowMarkers ==
  Scanning => \A m \in MarkerSet : sections[m] = LinesUnder(m, lines, idx)

\* a marker read twice holds the line after each occurrence, untrimmed
C3Witness ==
  /\ pc = "scan"
  /\ idx = 4
  /\ Len(lines) = 4
  /\ IsMarkerLine(lines[1])
  /\ Strip(lines[3]) = Strip(lines[1])
  /\ lines[2] # lines[4]
  /\ Strip(lines[4]) # lines[4]
  /\ sections[Strip(lines[1])] = <<lines[2], lines[4]>>

----------------------------------------------------------------------------
(* C4 *)

RECURSIVE SumLen(_, _)
SumLen(secs, S) ==
  IF S = {} THEN 0
  ELSE LET m == CHOOSE x \in S : TRUE IN Len(secs[m]) + SumLen(secs, S \ {m})

\* the lines read so far that are no marker line and follow a marker line
ContentAfterFirstMarker ==
  {i \in 1..idx : /\ ~IsMarkerLine(lines[i])
                  /\ \E j \in 1..(i - 1) : IsMarkerLine(lines[j])}

\* C4: at every step of the scan no list holds a line that is a marker once
\* trimmed, the lists hold no line read before the first marker line (they
\* hold as many lines as were read after it, marker lines apart), and a text
\* without marker line leaves the four lists empty and writes no section file.
C4NoMarkerNoPreamble ==
  Scanning =>
    /\ \A m \in MarkerSet : \A k \in 1..Len(sections[m]) :
         Strip(sections[m][k]) \notin {KEYNOTE, LINKEDIN, YOUTUBE, OUTLINE}
    /\ SumLen(sections, MarkerSet) = Cardinality(ContentAfterFirstMarker)
    /\ (\A i \in 1..Len(lines) : ~IsMarkerLine(lines[i])) =>
         /\ \A m \in MarkerSet : sections[m] = <<>>
         /\ Range(writes) \subseteq {PptxPath}

\* a line before the first marker was read and dropped, the line after the
\* marker was kept
C4Witness ==
  /\ pc = "scan"
  /\ idx = 3
  /\ Len(lines) = 3
  /\ lines[1] = <<"x">>
  /\ IsMarkerLine(lines[2])
  /\ lines[3] = <<" ", "y", " ">>
  /\ sections[Strip(lines[2])] = <<lines[3]>>

----------------------------------------------------------------------------
(* C5 *)

\* the file names the documentation gives to the four markers
ExpectedName(m) ==
  CASE m = KEYNOTE ->
         <<"k", "e", "y", "n", "o", "t", "e", "_", "s", "p", "e", "e", "c", "h", ".", "t", "x", "t">>
    [] m = LINKEDIN ->
         <<"l", "i", "n", "k", "e", "d", "i", "n", "_", "p", "o", "s", "t", ".", "t", "x", "t">>
    [] m = YOUTUBE ->
         <<"y", "o", "u", "t", "u", "b", "e", "_", "s", "c", "r", "i", "p", "t", ".", "t", "x", "t">>
    [] m = OUTLINE ->
         <<"s", "l", "i", "d", "e", "_", "o", "u", "t", "l", "i", "n", "e", ".", "t", "x", "t">>

ExpectedPath(m) == OUTPUT_DIR \o <<"/">> \o ExpectedName(m)

\* C5: the writing loop writes the file of a marker exactly when the marker's
\* list is not empty; the four markers write to four distinct files with the
\* documented names, each holding its own section, and the file of a marker
\* with an empty list is neither created nor modified.
C5OneFilePerSection ==
  [][(pc = "scan" /\ pc' = "slides") =>
       LET new == SubSeq(writes', Len(writes) + 1, Len(writes')) IN
       /\ Cardinality({ExpectedName(m) : m \in MarkerSet}) = 4
       /\ Range(new) = {ExpectedPath(m) : m \in {x \in MarkerSet : sections[x] # <<>>}}
       /\ Len(new) = Cardinality(Range(new))
       /\ \A m \in MarkerSet :
            IF sections[m] # <<>>
              THEN /\ ExpectedPath(m) \in DOMAIN files'
                   /\ files'[ExpectedPath(m)] = Strip(JoinNewline(sections[m]))
              ELSE /\ ExpectedPath(m) \in DOMAIN files' <=> ExpectedPath(m) \in DOMAIN files
                   /\ ExpectedPath(m) \in DOMAIN files =>
                        files'[ExpectedPath(m)] = files[ExpectedPath(m)]
       /\ \A p \in DOMAIN files' \ Range(new) : p \in DOMAIN files /\ files'[p] = files[p]]_vars

\* two sections were written, and the old file of an empty section is intact
C5Witness ==
  /\ pc = "slides"
  /\ sections[KEYNOTE] = <<>>
  /\ ExpectedPath(KEYNOTE) \in DOMAIN files
  /\ files[ExpectedPath(KEYNOTE)] = <<"k">>
  /\ sections[LINKEDIN] # <<>>
  /\ sections[OUTLINE] # <<>>
  /\ writes = <<ExpectedPath(LINKEDIN), ExpectedPath(OUTLINE)>>
  /\ files[ExpectedPath(LINKEDIN)] # files[ExpectedPath(OUTLINE)]

----------------------------------------------------------------------------
(* C8 *)

\* C8: once a topic that is empty after trimming has been entered, the run
\* is at the validation or stopped by its error: nothing is constructed, the
\* crew is not kicked off, neither function is called and no file is written.
C8EmptyTopicStops ==
  (pc \notin {"config", "input"} /\ AllWhitespace(typed)) =>
    /\ pc \in {"validate", "error"}
    /\ constructed = {}
    /\ calls = <<>>
    /\ writes = <<>>
    /\ out = <<>>

\* the run stopped on a topic made of whitespace
C8Witness ==
  /\ pc = "error"
  /\ typed # <<>>
  /\ AllWhitespace(typed)

----------------------------------------------------------------------------
(* C10 *)

IsPrefix(s, t) == Len(s) <= Len(t) /\ s = SubSeq(t, 1, Len(s))

\* kickoff, then save_sections_to_files, then build_slides_from_outline
RunOrder ==
  IsPrefix(calls, <<"kickoff", "save_sections_to_files", "build_slides_from_outline">>)

\* the splitter wrote the outline before the deck builder looks for it, and
\* the deck builder does not report a missing outline
OutlineReady ==
  /\ pc = "slides" => (OutlinePath \in DOMAIN files /\ OutlinePath \in Range(writes))
  /\ pc = "done" => "no_outline" \notin Range(out)

\* C10 as stated: the calls come in the fixed order and, whenever the final
\* text has a [SLIDE OUTLINE] marker line followed by at least one line, the
\* outline file has been written when the deck builder checks for it.
C10OutlineAfterAnyLine ==
  /\ RunOrder
  /\ (pc \in {"slides", "done"} /\
      \E i \in 1..(Len(lines) - 1) : Strip(lines[i]) = OUTLINE) => OutlineReady

\* C10 amended: the calls come in the fixed order and, whenever the final text
\* has a [SLIDE OUTLINE] marker line directly followed by a line that is not
\* itself a marker line, the outline file has been written by the splitter
\* when the deck builder checks for it, and the deck step is not skipped for
\* a missing outline.
C10OutlineAfterContentLine ==
  /\ RunOrder
  /\ (pc \in {"slides", "done"} /\
      \E i \in 1..(Len(lines) - 1) :
        Strip(lines[i]) = OUTLINE /\ ~IsMarkerLine(lines[i + 1])) => OutlineReady

\* a run on an empty output directory whose outline section gave a deck
C10Witness ==
  /\ pc = "done"
  /\ \E i \in 1..(Len(lines) - 1) :
       Strip(lines[i]) = OUTLINE /\ ~IsMarkerLine(lines[i + 1])
  /\ ExpectedPath(KEYNOTE) \notin DOMAIN files
  /\ calls = <<"kickoff", "save_sections_to_files", "build_slides_from_outline">>
  /\ Last(out) = "pptx_generated"
  /\ Last(writes) = PptxPath

====
